---- MODULE Spec2Model ----
(***************************************************************************)
(* Model of the 100cims drawing pipeline.                                  *)
(*   - generation stage: src/src/main.py calling plot_concave_hull         *)
(*     (src/src/data_maps.py), one layered drawing file per altitude band; *)
(*   - merge stage: src/mergeDXF.py, composites of per-band files.         *)
(* Areas and thresholds are counted in hundredths (4.0 is 400, 0.02 is 2), *)
(* the circle radius in tenths (0.5 is 5).                                 *)
(***************************************************************************)
EXTENDS Integers, Sequences, FiniteSets, TLC

VARIABLES
    \* ---- merge stage (src/mergeDXF.py) ----
    disk,               \* per-band drawing files on disk: stem -> document
    unreadable,         \* stems of the files ezdxf.readfile fails on
    dxf_files,          \* the sorted list of per-band file stems
    gap,                \* the gap argument
    num_files_per_gap,  \* local of merge_dxf_files_by_gap
    i,                  \* loop variable of merge_dxf_files_by_gap
    mpc,                \* position of the merge script
    dir_created,        \* output_directory.mkdir has run
    outputs,            \* composite files on disk: file name -> document
    saved,              \* log of saveas calls of the merge, in order
    \* ---- generation stage (src/src/main.py, src/src/data_maps.py) ----
    data,               \* the rows of the data frame
    has_nom,            \* the data frame has a 'nom' column
    sorted_categories,  \* band labels in ascending mean altitude
    start,              \* argument of plot_concave_hull
    end,                \* argument of plot_concave_hull
    save_dxf,           \* argument of plot_concave_hull
    pos,                \* position of the loop in sorted_categories[start:end]
    area_threshold,     \* local of plot_concave_hull, in hundredths
    gpc,                \* position of the generation script
    hull_log,           \* idx -> the points handed to alphashape and its result
    out_files,          \* per-band files written: file name -> document
    written             \* log of saveas calls of the generation, in order

mvars == <<disk, unreadable, dxf_files, gap, num_files_per_gap, i, mpc,
           dir_created, outputs, saved>>
gvars == <<data, has_nom, sorted_categories, start, end, save_dxf, pos,
           area_threshold, gpc, hull_log, out_files, written>>
vars == <<mvars, gvars>>

----------------------------------------------------------------------------
(* Bounds *)
MaxFiles == 7       \* longest file sequence handed to the merge
MaxWindow == 3      \* largest gap is 50 * MaxWindow
MaxBands == 3       \* most bands in sorted_categories

(* Program constants *)
BinSize == 50               \* width of an altitude band
InitialThreshold == 400     \* area_threshold = 4.0
ThresholdStep == 2          \* area_threshold -= 0.02
CrossRadius == 5            \* radius=0.5
MarginSide == 333           \* the margin square

----------------------------------------------------------------------------
(* Python helpers *)

Min(a, b) == IF a < b THEN a ELSE b
Max(a, b) == IF a > b THEN a ELSE b

\* seq[j] with 0-based index j; negative indices count from the end.
PyInBounds(seq, j) == -Len(seq) <= j /\ j < Len(seq)
PyIndex(seq, j) == IF j >= 0 THEN seq[j + 1] ELSE seq[Len(seq) + j + 1]

\* Normalised bound of a slice seq[a:b].
PySliceBound(n, a) == IF a < 0 THEN Max(n + a, 0) ELSE Min(a, n)
\* seq[a:b]
PySlice(seq, a, b) ==
    LET lo == PySliceBound(Len(seq), a)
        hi == PySliceBound(Len(seq), b)
    IN  IF lo < hi THEN SubSeq(seq, lo + 1, hi) ELSE <<>>

\* list.index(x): 0-based position of the first element equal to x.
PyListIndex(seq, x) ==
    (CHOOSE j \in 1..Len(seq) :
        seq[j] = x /\ \A k \in 1..(j - 1) : seq[k] # x) - 1

\* stem.split()[0]: the characters before the first blank.
RECURSIVE FirstBlank(_, _)
FirstBlank(s, j) ==
    IF j > Len(s) THEN Len(s) + 1
    ELSE IF SubSeq(s, j, j) = " " THEN j
    ELSE FirstBlank(s, j + 1)
FirstToken(s) == SubSeq(s, 1, FirstBlank(s, 1) - 1)

----------------------------------------------------------------------------
(* Band labels: categorize_and_sort *)

\* str(category) + "m to " + str(category + bin_size) + "m"
CategoryLabel(k) ==
    ToString(BinSize * k) \o "m to " \o ToString(BinSize * (k + 1)) \o "m"

\* The categories 0 .. n-1 in ascending mean altitude.
SortedCategories(n) == [k \in 1..n |-> CategoryLabel(k - 1)]

----------------------------------------------------------------------------
(* Drawing documents: a layer table and the entities of the modelspace *)

Layer(name, color) == [name |-> name, color |-> color]
Polyline(layer, geom) ==
    [type |-> "LWPOLYLINE", layer |-> layer, geom |-> geom, radius |-> 0]
Circle(layer, geom, radius) ==
    [type |-> "CIRCLE", layer |-> layer, geom |-> geom, radius |-> radius]

MarginSquare ==
    "square " \o ToString(0) \o ".." \o ToString(MarginSide)

\* The document save_combined_to_dxf writes.
save_combined_to_dxf(all_smoothed_boundaries, crosses) ==
    [layers |-> {Layer("Boundaries", 7), Layer("Crosses", 1), Layer("Margin", 3)},
     entities |->
        [b \in 1..Len(all_smoothed_boundaries) |->
            Polyline("Boundaries", all_smoothed_boundaries[b])]
        \o [c \in 1..Len(crosses) |-> Circle("Crosses", crosses[c], CrossRadius)]
        \o <<Polyline("Margin", MarginSquare)>>]

\* modelspace().query('TYPE[layer=="name"]'): positions of the matching
\* entities, in document order.
RECURSIVE QueryFrom(_, _, _, _)
QueryFrom(doc, type, layer, j) ==
    IF j > Len(doc.entities) THEN <<>>
    ELSE (IF doc.entities[j].type = type /\ doc.entities[j].layer = layer
          THEN <<j>> ELSE <<>>) \o QueryFrom(doc, type, layer, j + 1)
Query(doc, type, layer) == QueryFrom(doc, type, layer, 1)

\* The entities of a document on one layer, as a sequence.
OnLayer(doc, layer) == SelectSeq(doc.entities, LAMBDA e : e.layer = layer)
GeomsOnLayer(doc, type, layer) ==
    {doc.entities[j].geom : j \in {k \in 1..Len(doc.entities) :
        doc.entities[k].type = type /\ doc.entities[k].layer = layer}}

----------------------------------------------------------------------------
(* Merge stage: src/mergeDXF.py *)

\* process_layer: every queried entity of the loaded document is relabelled
\* in place and a copy of it is added to the modelspace msp.
\* Result: the loaded document after the loop, and msp.
RECURSIVE ProcessFrom(_, _, _, _, _)
ProcessFrom(doc, entities, layer, msp, j) ==
    IF j > Len(entities) THEN [doc |-> doc, msp |-> msp]
    ELSE LET updated == [doc EXCEPT !.entities[entities[j]].layer = layer]
         IN  ProcessFrom(updated, entities, layer,
                         Append(msp, updated.entities[entities[j]]), j + 1)
RECURSIVE ProcessFromCopyFirst(_, _, _, _, _)
ProcessFromCopyFirst(doc, entities, layer, msp, j) ==
    IF j > Len(entities) THEN [doc |-> doc, msp |-> msp]
    ELSE LET updated == [doc EXCEPT !.entities[entities[j]].layer = layer]
         IN  ProcessFromCopyFirst(updated, entities, layer,
                         Append(msp, doc.entities[entities[j]]), j + 1)
ProcessLayerCopyFirst(doc, entities, layer, msp) ==
    ProcessFromCopyFirst(doc, entities, layer, msp, 1)
process_layer(doc, entities, layer, msp) ==
    ProcessFrom(doc, entities, layer, msp, 1)

\* ezdxf.readfile succeeds on the files that are readable.
Readable(f) == f \in DOMAIN disk /\ f \notin unreadable
\* ezdxf.readfile: a fresh in-memory document.
readfile(f) == disk[f]

\* The "Crosses" loop of combine_dxf_files over all_dxf_files[start_index:].
RECURSIVE CrossesFrom(_, _, _)
CrossesFrom(files, j, msp) ==
    IF j > Len(files) THEN msp
    ELSE LET doc == readfile(files[j])
             cross_entities == Query(doc, "CIRCLE", "Crosses")
         IN  CrossesFrom(files, j + 1,
                         process_layer(doc, cross_entities, "Crosses", msp).msp)

CrossFilesWindowOnly(selected_files, all_dxf_files) ==
    LET a == PyListIndex(all_dxf_files, selected_files[1])
        b == PyListIndex(all_dxf_files, selected_files[Len(selected_files)])
    IN  PySlice(all_dxf_files, a, b + 1)
\* all_dxf_files[start_index:]
CrossFiles(selected_files, all_dxf_files) ==
    LET start_index == PyListIndex(all_dxf_files, selected_files[1])
    IN  PySlice(all_dxf_files, start_index, Len(all_dxf_files))

\* The files combine_dxf_files reads, in reading order.
CombineReads(selected_files, all_dxf_files) ==
    <<selected_files[1], selected_files[Len(selected_files)]>>
    \o CrossFiles(selected_files, all_dxf_files)

\* combine_dxf_files when every read succeeds: the document it saves.
combine_dxf_files(selected_files, all_dxf_files) ==
    LET start_doc == readfile(selected_files[1])
        s1 == process_layer(start_doc,
                            Query(start_doc, "LWPOLYLINE", "Boundaries"),
                            "Boundaries_start", <<>>)
        s2 == process_layer(s1.doc, Query(s1.doc, "LWPOLYLINE", "Margin"),
                            "Margin", s1.msp)
        end_doc == readfile(selected_files[Len(selected_files)])
        s3 == process_layer(end_doc,
                            Query(end_doc, "LWPOLYLINE", "Boundaries"),
                            "Boundaries_end", s2.msp)
        msp == CrossesFrom(CrossFiles(selected_files, all_dxf_files), 1, s3.msp)
    IN  [layers |-> {Layer("Boundaries_start", 7), Layer("Boundaries_end", 5),
                     Layer("Crosses", 1), Layer("Margin", 3)},
         entities |-> msp]

\* The in-memory start document after lines 50-55 and the in-memory end
\* document after lines 58-60: process_layer has relabelled their entities.
LoadedStartDoc(selected_files) ==
    LET start_doc == readfile(selected_files[1])
        s1 == process_layer(start_doc,
                            Query(start_doc, "LWPOLYLINE", "Boundaries"),
                            "Boundaries_start", <<>>)
    IN  process_layer(s1.doc, Query(s1.doc, "LWPOLYLINE", "Margin"),
                      "Margin", s1.msp).doc
LoadedEndDoc(selected_files) ==
    LET end_doc == readfile(selected_files[Len(selected_files)])
    IN  process_layer(end_doc, Query(end_doc, "LWPOLYLINE", "Boundaries"),
                      "Boundaries_end", <<>>).doc

PersistedWithRelabelWrittenBack(selected_files) ==
    [f \in DOMAIN disk |->
        IF f = selected_files[Len(selected_files)]
        THEN LoadedEndDoc(selected_files)
        ELSE IF f = selected_files[1] THEN LoadedStartDoc(selected_files)
        ELSE disk[f]]
\* The per-band files on disk after combine_dxf_files: the loaded documents
\* are dropped unsaved, the only saveas (line 72) writes output_file in the
\* output directory.
PersistedAfterCombine(selected_files) == disk

SelectedFilesNoClamp(j) ==
    <<PyIndex(dxf_files, j),
      PyIndex(dxf_files, Min(j + num_files_per_gap - 1, Len(dxf_files) - 1))>>
\* Lines 17-20: the start file and the end file of the stride at index j.
SelectedFiles(j) ==
    IF PyInBounds(dxf_files, j + num_files_per_gap)
    THEN <<PyIndex(dxf_files, j), PyIndex(dxf_files, j + num_files_per_gap)>>
    ELSE <<PyIndex(dxf_files, j), PyIndex(dxf_files, Len(dxf_files) - 1)>>

\* Lines 23-25: the name of the composite.
OutputFile(selected_files) ==
    FirstToken(selected_files[1]) \o " to "
    \o FirstToken(selected_files[Len(selected_files)]) \o ".dxf"

\* range(0, len(dxf_files), num_files_per_gap) holds j.
InRange(j) ==
    \/ num_files_per_gap > 0 /\ j < Len(dxf_files)
    \/ num_files_per_gap < 0 /\ j > Len(dxf_files)

\* The next value of the loop variable.
NextIndexByOne(j) == j + 1
NextIndex(j) == j + num_files_per_gap

\* The gaps tried: the multiples of 50 up to 50 * MaxWindow, and gaps that
\* are no positive multiple of 50.
Gaps == {BinSize * w : w \in 1..MaxWindow} \cup {-50, 0, 30, 75}

\* A per-band file as the generation stage writes it: nb boundary curves,
\* nc markers, the margin square.
BandFile(stem, nb, nc) ==
    save_combined_to_dxf([b \in 1..nb |-> stem \o " hull " \o ToString(b)],
                         [c \in 1..nc |-> stem \o " peak " \o ToString(c)])

GenIdle ==
    /\ data = {}
    /\ has_nom = FALSE
    /\ sorted_categories = <<>>
    /\ start = 0
    /\ end = 0
    /\ save_dxf = FALSE
    /\ pos = 0
    /\ area_threshold = InitialThreshold
    /\ gpc = "idle"
    /\ hull_log = <<>>
    /\ out_files = <<>>
    /\ written = <<>>

\* Lines 82-84 and the call of line 86: the sorted file list, the files on
\* disk, the gap.
InitMerge ==
    /\ \E n \in 0..MaxFiles, shift \in 0..1 :
        /\ dxf_files = SortedCategories(n)
        /\ \E marked \in SUBSET (1..n) :
            disk = [f \in {CategoryLabel(k - 1) : k \in 1..n} |->
                     LET k == CHOOSE k \in 1..n : CategoryLabel(k - 1) = f
                     IN  BandFile(f, (k + shift) % 3,
                                  IF k \in marked THEN 1 + (k % 2) ELSE 0)]
        /\ unreadable \in {{}} \cup {{CategoryLabel(k - 1)} : k \in 1..n}
    /\ gap \in Gaps
    /\ num_files_per_gap = 0
    /\ i = 0
    /\ mpc = "start"
    /\ dir_created = FALSE
    /\ outputs = <<>>
    /\ saved = <<>>
    /\ GenIdle

\* Lines 13-16: the window, the output directory, the range of the loop.
\* range() raises ValueError on a step of zero.
MergeBegin ==
    /\ mpc = "start"
    /\ num_files_per_gap' = gap \div BinSize
    /\ dir_created' = TRUE
    /\ i' = 0
    /\ mpc' = IF gap \div BinSize = 0 THEN "ValueError" ELSE "loop"
    /\ UNCHANGED <<disk, unreadable, dxf_files, gap, outputs, saved>>
    /\ UNCHANGED gvars

\* Lines 16-27, one iteration with every read of combine_dxf_files
\* succeeding: the composite is saved.
MergeIterSaved ==
    /\ mpc = "loop"
    /\ InRange(i)
    /\ LET selected_files == SelectedFiles(i)
           output_file == OutputFile(selected_files)
           reads == CombineReads(selected_files, dxf_files)
       IN  /\ \A r \in 1..Len(reads) : Readable(reads[r])
           /\ outputs' = (output_file :> combine_dxf_files(selected_files, dxf_files))
                         @@ outputs
           /\ saved' = Append(saved, [i |-> i, name |-> output_file,
                                      selected |-> selected_files])
    /\ disk' = PersistedAfterCombine(SelectedFiles(i))
    /\ i' = NextIndex(i)
    /\ UNCHANGED <<unreadable, dxf_files, gap, num_files_per_gap, mpc,
                   dir_created>>
    /\ UNCHANGED gvars

\* Lines 16-27, one iteration in which a read of combine_dxf_files raises:
\* nothing catches the exception, the script ends with it.
MergeIterRaised ==
    /\ mpc = "loop"
    /\ InRange(i)
    /\ LET reads == CombineReads(SelectedFiles(i), dxf_files)
       IN  \E r \in 1..Len(reads) : ~Readable(reads[r])
    /\ mpc' = "ReadError"
    /\ UNCHANGED <<disk, unreadable, dxf_files, gap, num_files_per_gap, i,
                   dir_created, outputs, saved>>
    /\ UNCHANGED gvars

\* Line 16: the range is exhausted, merge_dxf_files_by_gap returns.
MergeEnd ==
    /\ mpc = "loop"
    /\ ~InRange(i)
    /\ mpc' = "done"
    /\ UNCHANGED <<disk, unreadable, dxf_files, gap, num_files_per_gap, i,
                   dir_created, outputs, saved>>
    /\ UNCHANGED gvars

NextMerge == MergeBegin \/ MergeIterSaved \/ MergeIterRaised \/ MergeEnd

Spec == InitMerge /\ [][NextMerge]_vars

----------------------------------------------------------------------------
(* Generation stage: src/src/main.py and plot_concave_hull *)

\* A row of the data frame: its band label, its 'nom' ("NaN" when absent)
\* and its point (longitude, latitude).
Row(category, nom, point) == [category |-> category, nom |-> nom, point |-> point]

\* The rows of band k: two unnamed points, and named peaks when marked.
BandRows(k, marked) ==
    LET label == CategoryLabel(k - 1)
        named == IF k \in marked THEN 1 + (k % 2) ELSE 0
    IN  [p \in 1..2 |-> Row(label, "NaN", label \o " pt " \o ToString(p))]
        \o [p \in 1..named |->
              Row(label, "cim " \o ToString(p), label \o " peak " \o ToString(p))]
RECURSIVE Rows(_, _)
Rows(n, marked) ==
    IF n = 0 THEN <<>> ELSE Rows(n - 1, marked) \o BandRows(n, marked)

\* The polygons alphashape may return as parts of a hull: an area in
\* hundredths, and whether splprep can fit a spline through the exterior.
Areas == {InitialThreshold, InitialThreshold + ThresholdStep}
Polygons ==
    {[area |-> a, smoothable |-> TRUE] : a \in Areas}
    \cup {[area |-> InitialThreshold + ThresholdStep, smoothable |-> FALSE]}
\* What alphashape.alphashape(points, alpha) may do: raise, return a
\* Polygon, return a MultiPolygon, or return a geometry that is neither
\* (a point, a line, an empty collection). Fewer than three points give no
\* polygon.
HullResults(points) ==
    {[kind |-> "Raise", parts |-> <<>>], [kind |-> "Other", parts |-> <<>>]}
    \cup (IF Cardinality(points) < 3 THEN {}
          ELSE {[kind |-> "Polygon", parts |-> <<p>>] : p \in Polygons}
               \cup {[kind |-> "MultiPolygon", parts |-> <<p, q>>] :
                        p \in Polygons, q \in Polygons})

\* sorted_categories[start:end]
LoopCategories == PySlice(sorted_categories, start, end)
\* enumerate(..., start=start)
Idx == start + pos
Category == LoopCategories[pos + 1]

\* Line 54: sorted_categories[idx:]
SubsequentCategories(idx) ==
    PySlice(sorted_categories, idx, Len(sorted_categories))
InSeq(x, seq) == \E j \in 1..Len(seq) : seq[j] = x
CategoryDataThisBandOnly(idx) ==
    SelectSeq(data, LAMBDA r : r.category = PyIndex(sorted_categories, idx))
\* Line 55: data[data['category'].isin(subsequent_categories)]
CategoryData(idx) ==
    SelectSeq(data, LAMBDA r : InSeq(r.category, SubsequentCategories(idx)))
\* Line 56: the points handed to alphashape.
Points(category_data) ==
    {category_data[r].point : r \in 1..Len(category_data)}

CategoryPeakDataCumulative(category_data, category) == category_data
\* Line 92: category_data[category_data['category'] == category]
CategoryPeakData(category_data, category) ==
    SelectSeq(category_data, LAMBDA r : r.category = category)

\* Lines 95-111: the coordinates of the rows of the band with a 'nom'.
RedCrosses(category_data, category) ==
    IF has_nom
    THEN LET points_with_nom ==
                SelectSeq(CategoryPeakData(category_data, category),
                          LAMBDA r : r.nom # "NaN")
         IN  [r \in 1..Len(points_with_nom) |-> points_with_nom[r].point]
    ELSE <<>>

\* The curve smooth_boundary returns for part p of the hull of a band.
SmoothedCurve(category, p) == category \o " hull " \o ToString(p)

\* Lines 68-87: the parts of the hull that are smoothed: those of a
\* MultiPolygon above the threshold, the one of a Polygon whatever its area.
SmoothedParts(hull, threshold) ==
    IF hull.kind = "MultiPolygon"
    THEN SelectSeq(<<1, 2>>, LAMBDA p : hull.parts[p].area > threshold)
    ELSE IF hull.kind = "Polygon" THEN <<1>>
    ELSE <<>>

\* os.path.join(output_folder, f"{category_name}.dxf50")
DxfFilename(category_name) == category_name \o ".dxf50"

MergeIdle ==
    /\ disk = <<>>
    /\ unreadable = {}
    /\ dxf_files = <<>>
    /\ gap = 0
    /\ num_files_per_gap = 0
    /\ i = 0
    /\ mpc = "idle"
    /\ dir_created = FALSE
    /\ outputs = <<>>
    /\ saved = <<>>

\* main.py lines 28-35 and line 48: the sorted bands, the data, the
\* arguments of plot_concave_hull, the initial threshold.
InitGen ==
    /\ \E n \in 1..MaxBands :
        /\ sorted_categories = SortedCategories(n)
        /\ \E marked \in SUBSET (1..n) :
            /\ data = Rows(n, marked)
            /\ has_nom \in (IF marked = {} THEN BOOLEAN ELSE {TRUE})
        /\ start \in 0..(n - 1)
        /\ end \in {-1, n}
    /\ save_dxf \in BOOLEAN
    /\ pos = 0
    /\ area_threshold = InitialThreshold
    /\ gpc = "loop"
    /\ hull_log = <<>>
    /\ out_files = <<>>
    /\ written = <<>>
    /\ MergeIdle

\* Line 58 raises: nothing catches the exception, the script ends with it.
BandHullRaises ==
    /\ gpc = "loop"
    /\ pos < Len(LoopCategories)
    /\ LET category_data == CategoryData(Idx)
           points == Points(category_data)
       IN  \E hull \in HullResults(points) :
            /\ hull.kind = "Raise"
            /\ hull_log' = (Idx :> [points |-> points, hull |-> hull]) @@ hull_log
    /\ gpc' = "error"
    /\ UNCHANGED <<data, has_nom, sorted_categories, start, end, save_dxf, pos,
                   area_threshold, out_files, written>>
    /\ UNCHANGED mvars

\* Lines 73 / 83: smooth_boundary raises on a part that is smoothed; the
\* exception ends the script.
BandSmoothRaises ==
    /\ gpc = "loop"
    /\ pos < Len(LoopCategories)
    /\ LET category_data == CategoryData(Idx)
           points == Points(category_data)
       IN  \E hull \in HullResults(points) :
            /\ hull.kind # "Raise"
            /\ LET parts == SmoothedParts(hull, area_threshold)
               IN  \E p \in 1..Len(parts) : ~hull.parts[parts[p]].smoothable
            /\ hull_log' = (Idx :> [points |-> points, hull |-> hull]) @@ hull_log
    /\ gpc' = "error"
    /\ UNCHANGED <<data, has_nom, sorted_categories, start, end, save_dxf, pos,
                   area_threshold, out_files, written>>
    /\ UNCHANGED mvars

\* Lines 49-130, one iteration that raises nothing: the hull, the smoothed
\* boundaries, the threshold step, the markers, the drawing file.
BandDone ==
    /\ gpc = "loop"
    /\ pos < Len(LoopCategories)
    /\ LET category == Category
           category_data == CategoryData(Idx)
           points == Points(category_data)
       IN  \E hull \in HullResults(points) :
            /\ hull.kind # "Raise"
            /\ LET parts == SmoothedParts(hull, area_threshold)
                   all_smoothed_boundaries ==
                       [p \in 1..Len(parts) |-> SmoothedCurve(category, parts[p])]
                   all_red_crosses == RedCrosses(category_data, category)
                   dxf_filename == DxfFilename(PyIndex(sorted_categories, Idx))
               IN  /\ \A p \in 1..Len(parts) : hull.parts[parts[p]].smoothable
                   /\ IF save_dxf
                      THEN /\ out_files' =
                                (dxf_filename :>
                                    save_combined_to_dxf(all_smoothed_boundaries,
                                                         all_red_crosses))
                                @@ out_files
                           /\ written' = Append(written, dxf_filename)
                      ELSE UNCHANGED <<out_files, written>>
            /\ hull_log' = (Idx :> [points |-> points, hull |-> hull]) @@ hull_log
    /\ area_threshold' = area_threshold - ThresholdStep
    /\ pos' = pos + 1
    /\ UNCHANGED <<data, has_nom, sorted_categories, start, end, save_dxf, gpc>>
    /\ UNCHANGED mvars

\* Line 49: the slice is exhausted, plot_concave_hull returns.
GenEnd ==
    /\ gpc = "loop"
    /\ pos >= Len(LoopCategories)
    /\ gpc' = "done"
    /\ UNCHANGED <<data, has_nom, sorted_categories, start, end, save_dxf, pos,
                   area_threshold, hull_log, out_files, written>>
    /\ UNCHANGED mvars

NextGen == BandHullRaises \/ BandSmoothRaises \/ BandDone \/ GenEnd

GenSpec == InitGen /\ [][NextGen]_vars

----------------------------------------------------------------------------
(* Merge stage: what the claims speak of *)

FileCount == Len(dxf_files)
\* window = gap / 50
Window == gap \div BinSize
ValidConfig == gap > 0 /\ gap % BinSize = 0 /\ FileCount > 0
AllReadable == unreadable = {}
MergeOver == mpc \in {"done", "ValueError", "ReadError"}
Ceil(a, b) == (a + b - 1) \div b
\* The stride start indices 0, window, 2*window, ... < L.
StrideStarts == {j \in 0..(FileCount - 1) : j % Window = 0}
\* The file at 0-based index j of the sequence.
FileAt(j) == dxf_files[j + 1]
\* The name "<a>m to <b>m.dxf" of the composite of the bands a and b.
CompositeName(a, b) ==
    ToString(BinSize * a) \o "m to " \o ToString(BinSize * b) \o "m.dxf"
\* The 0-based index of the end file of the stride at j.
EndIndex(j) == IF j + Window < FileCount THEN j + Window ELSE FileCount - 1
\* The geometries of a per-band file on one layer.
DiskGeoms(f, type, layer) == GeomsOnLayer(disk[f], type, layer)
LayerLen(doc, layer) == Len(OnLayer(doc, layer))

\* C1: for a non-empty sequence of readable files and a gap that is a
\* positive multiple of 50, the merge never raises, its loop variable walks
\* the multiples of the window, and when it has returned it has saved
\* exactly ceil(L / window) composites, one per stride start index, under
\* pairwise different names.
C1_WindowCount ==
    (ValidConfig /\ AllReadable) =>
        /\ mpc \in {"start", "loop", "done"}
        /\ mpc = "loop" =>
            /\ i % Window = 0
            /\ i < FileCount + Window
            /\ Len(saved) = i \div Window
        /\ mpc = "done" =>
            /\ Len(saved) = Ceil(FileCount, Window)
            /\ {saved[s].i : s \in 1..Len(saved)} = StrideStarts
            /\ \A s, t \in 1..Len(saved) :
                  saved[s].name = saved[t].name => s = t
            /\ Cardinality(DOMAIN outputs) = Ceil(FileCount, Window)

C1_Witness ==
    /\ mpc = "done" /\ AllReadable
    /\ FileCount = 7 /\ gap = 150
    /\ Len(saved) = 3
    /\ Cardinality(DOMAIN outputs) = 3

\* C2: the composite of the stride at index i is built from sequence[i] and
\* from sequence[i + window] when that index exists, else from the last
\* file, and is named after the leading tokens of the two; 7 files
\* 0, 50, ..., 300 with gap 100 give "0m to 100m", "100m to 200m",
\* "200m to 300m", "300m to 300m".
C2_StartEndFiles ==
    /\ \A s \in 1..Len(saved) :
        /\ saved[s].selected[1] = FileAt(saved[s].i)
        /\ saved[s].selected[2] = FileAt(EndIndex(saved[s].i))
        /\ saved[s].name = CompositeName(saved[s].i, EndIndex(saved[s].i))
        /\ saved[s].name \in DOMAIN outputs
    /\ (mpc = "done" /\ FileCount = 7 /\ gap = 100) =>
        [s \in 1..Len(saved) |-> saved[s].name] =
            <<"0m to 100m.dxf", "100m to 200m.dxf", "200m to 300m.dxf",
              "300m to 300m.dxf">>

C2_Witness ==
    /\ mpc = "done" /\ FileCount = 7 /\ gap = 100
    /\ Len(saved) = 4
    /\ saved[4].selected = <<"300m to 350m", "300m to 350m">>
    /\ DOMAIN outputs = {"0m to 100m.dxf", "100m to 200m.dxf",
                         "200m to 300m.dxf", "300m to 300m.dxf"}

\* C3: the "Crosses" layer of the composite of the stride at index i holds
\* exactly the "Crosses" circles of the files at the indices i .. L-1, each
\* once, none of a file before i; so the markers of a later composite are
\* among those of every earlier one.
CrossesFromIndex(j) ==
    UNION {DiskGeoms(FileAt(k), "CIRCLE", "Crosses") : k \in j..(FileCount - 1)}
CrossesBeforeIndex(j) ==
    UNION {DiskGeoms(FileAt(k), "CIRCLE", "Crosses") : k \in 0..(j - 1)}
CompositeCrosses(s) == GeomsOnLayer(outputs[saved[s].name], "CIRCLE", "Crosses")

C3_CrossesAccumulate ==
    /\ \A s \in 1..Len(saved) :
        /\ CompositeCrosses(s) = CrossesFromIndex(saved[s].i)
        /\ LayerLen(outputs[saved[s].name], "Crosses")
              = Cardinality(CrossesFromIndex(saved[s].i))
        /\ CompositeCrosses(s) \cap CrossesBeforeIndex(saved[s].i) = {}
    /\ \A s, t \in 1..Len(saved) :
        s < t => CompositeCrosses(t) \subseteq CompositeCrosses(s)

\* A composite whose markers come from beyond its window, while a file
\* before its start has markers too.
C3_Witness ==
    \E s \in 1..Len(saved) :
        /\ saved[s].i > 0
        /\ CrossesBeforeIndex(saved[s].i) # {}
        /\ EndIndex(saved[s].i) + 1 < FileCount
        /\ DiskGeoms(FileAt(FileCount - 1), "CIRCLE", "Crosses") # {}
        /\ DiskGeoms(FileAt(FileCount - 1), "CIRCLE", "Crosses")
              \subseteq CompositeCrosses(s)

\* C4: a composite holds on "Boundaries_start" exactly the "Boundaries"
\* polylines of its start file, on "Boundaries_end" exactly those of its
\* end file, on "Margin" exactly the "Margin" polylines of its start file,
\* and nothing on a layer "Boundaries", also when start and end file are
\* the same file.
C4_CompositeLayers ==
    \A s \in 1..Len(saved) :
        LET doc == outputs[saved[s].name]
            start_file == saved[s].selected[1]
            end_file == saved[s].selected[2]
        IN  /\ GeomsOnLayer(doc, "LWPOLYLINE", "Boundaries_start")
                  = DiskGeoms(start_file, "LWPOLYLINE", "Boundaries")
            /\ LayerLen(doc, "Boundaries_start")
                  = LayerLen(disk[start_file], "Boundaries")
            /\ GeomsOnLayer(doc, "LWPOLYLINE", "Boundaries_end")
                  = DiskGeoms(end_file, "LWPOLYLINE", "Boundaries")
            /\ LayerLen(doc, "Boundaries_end")
                  = LayerLen(disk[end_file], "Boundaries")
            /\ GeomsOnLayer(doc, "LWPOLYLINE", "Margin")
                  = DiskGeoms(start_file, "LWPOLYLINE", "Margin")
            /\ LayerLen(doc, "Margin") = LayerLen(disk[start_file], "Margin")
            /\ LayerLen(doc, "Boundaries") = 0
            /\ \A e \in 1..Len(doc.entities) :
                  doc.entities[e].layer \in
                      {"Boundaries_start", "Boundaries_end", "Margin", "Crosses"}

\* The clamped last group: one file is start file and end file, and it has
\* boundary curves.
C4_Witness ==
    \E s \in 1..Len(saved) :
        /\ saved[s].selected[1] = saved[s].selected[2]
        /\ LayerLen(disk[saved[s].selected[1]], "Boundaries") = 2
        /\ LayerLen(outputs[saved[s].name], "Boundaries_start") = 2
        /\ LayerLen(outputs[saved[s].name], "Boundaries_end") = 2

\* C5: with a gap that is no positive multiple of 50, or with an empty file
\* sequence, the merge is aborted before anything is written: it never
\* returns normally and no composite file exists.
C5_InvalidConfigAborts ==
    ~ValidConfig =>
        /\ mpc # "done"
        /\ Len(saved) = 0
        /\ DOMAIN outputs = {}

\* C6: a failed read abandons only the composite of its stride; when the
\* merge is over, every stride whose constituent files (its start file, its
\* end file, the files from its start index on) are all readable has its
\* composite on disk.
StrideReadable(j) ==
    /\ Readable(FileAt(j))
    /\ Readable(FileAt(EndIndex(j)))
    /\ \A k \in j..(FileCount - 1) : Readable(FileAt(k))

C6_ReadFailureSkipsOneComposite ==
    (ValidConfig /\ MergeOver) =>
        \A j \in StrideStarts :
            StrideReadable(j) => CompositeName(j, EndIndex(j)) \in DOMAIN outputs

----------------------------------------------------------------------------
(* Generation stage: what the claims speak of *)

BandCount == Len(sorted_categories)
\* The band with 0-based sort index idx and its drawing file.
BandAt(idx) == sorted_categories[idx + 1]
BandFileName(idx) ==
    ToString(BinSize * idx) \o "m to " \o ToString(BinSize * (idx + 1)) \o "m.dxf50"
\* The sort index of the band a row belongs to.
RowBandIndex(r) ==
    CHOOSE idx \in 0..(BandCount - 1) : BandAt(idx) = r.category
RowsWhere(Test(_)) == {data[r] : r \in {q \in 1..Len(data) : Test(data[q])}}
GenOver == gpc \in {"done", "error"}
\* The call main.py makes: start = 0, end = -1, save_dxf = True.
CallOfMain == start = 0 /\ end = -1 /\ save_dxf
\* The threshold of the band with sort index idx: 4.0 - 0.02*idx.
ThresholdOfBand(idx) == InitialThreshold - ThresholdStep * idx
Written(idx) == idx \in DOMAIN hull_log /\ BandFileName(idx) \in DOMAIN out_files

\* C7: every curve on the "Boundaries" layer of the file of the band with
\* sort index idx comes from a polygon of that band's hull whose area is
\* strictly greater than 4.0 - 0.02*idx, be the hull one polygon or several.
C7_BoundariesAboveThreshold ==
    \A idx \in 0..(BandCount - 1) :
        Written(idx) =>
            \A p \in 1..Len(hull_log[idx].hull.parts) :
                SmoothedCurve(BandAt(idx), p)
                    \in GeomsOnLayer(out_files[BandFileName(idx)],
                                     "LWPOLYLINE", "Boundaries")
                => hull_log[idx].hull.parts[p].area > ThresholdOfBand(idx)

\* C8: when the generation that main starts has returned, one drawing file
\* has been written for every band of the sorted list, the last included,
\* in ascending band order.
C8_OneFilePerBand ==
    (CallOfMain /\ gpc = "done") =>
        written = [k \in 1..BandCount |-> BandFileName(k - 1)]

\* C9: no failure inside a band stops the sequence: a band whose hull
\* computation fails or is degenerate gets no drawing file, and when the
\* generation is over every band of the call has been processed and has
\* its file unless its hull failed (a polygon that cannot be smoothed is
\* left out of the file, the file is written).
HullFailed(idx) == hull_log[idx].hull.kind \in {"Raise", "Other"}
BandsOfCall ==
    {idx \in 0..(BandCount - 1) :
        BandAt(idx) \in {LoopCategories[k] : k \in 1..Len(LoopCategories)}}

C9_FailureSkipsOneBand ==
    save_dxf =>
        /\ \A idx \in DOMAIN hull_log :
              HullFailed(idx) => BandFileName(idx) \notin DOMAIN out_files
        /\ GenOver =>
              \A idx \in BandsOfCall :
                  /\ idx \in DOMAIN hull_log
                  /\ ~HullFailed(idx) => BandFileName(idx) \in DOMAIN out_files

\* C10: the hull of the band with sort index idx is computed over the
\* points of every band with index >= idx, while the "Crosses" layer of its
\* file holds one circle of radius 0.5 for each named point of that band
\* and no marker of another band.
CumulativePoints(idx) ==
    {r.point : r \in RowsWhere(LAMBDA r : RowBandIndex(r) >= idx)}
NamedPoints(idx) ==
    {r.point : r \in RowsWhere(LAMBDA r : RowBandIndex(r) = idx /\ r.nom # "NaN")}

====
